---------------------------- MODULE Spec2Model ----------------------------
(***************************************************************************)
(* pkg.golang.fail: the on-demand repository store (init_repo,             *)
(* write_nary_tuple) and the smart-HTTP gateway (tuple_n_git,              *)
(* tuple_n_git_handler) of src/src/main.rs, as a state machine.            *)
(*                                                                         *)
(* Concurrent requests share nothing but the directory "repos".  Each      *)
(* request runs the handler statement by statement; a step that performs   *)
(* I/O either succeeds or fails, as the operating system decides.          *)
(***************************************************************************)
EXTENDS Naturals, Sequences, FiniteSets, TLC

(***************************************************************************)
(* Bounds of the model.                                                    *)
(***************************************************************************)
\* Request slots served at the same time (a slot is reused once it is done).
NumRequests == 2
\* Repository keys requested are 0..MaxKey.
MaxKey == 1
\* Staging directory names the temporary-name generator can draw.
NumTmpNames == 2
\* A request body arrives in at most MaxChunks data chunks.
MaxChunks == 2
\* A delegated git-upload-pack writes at most MaxOut output blocks.
MaxOut == 1
\* Wall-clock readings a commit could observe.
MaxClock == 1
\* the largest number of worker threads of the runtime (one per core)
MaxWorkers == 2
\* the largest arity the generator is run for on its own
MaxArity == 3

Requests == 1..NumRequests
Keys == 0..MaxKey
Clock == 0..MaxClock
Arities == 0..MaxArity

(***************************************************************************)
(* Text helpers: format!("{}", n) of an unsigned integer, and join.        *)
(***************************************************************************)
Digit(d) ==
    CASE d = 0 -> "0" [] d = 1 -> "1" [] d = 2 -> "2" [] d = 3 -> "3"
      [] d = 4 -> "4" [] d = 5 -> "5" [] d = 6 -> "6" [] d = 7 -> "7"
      [] d = 8 -> "8" [] d = 9 -> "9"

RECURSIVE Fmt(_)
Fmt(n) == IF n < 10 THEN Digit(n) ELSE Fmt(n \div 10) \o Digit(n % 10)

RECURSIVE Join(_, _)
Join(s, sep) ==
    IF Len(s) = 0 THEN ""
    ELSE IF Len(s) = 1 THEN s[1]
    ELSE s[1] \o sep \o Join(Tail(s), sep)

\* (0..n).map(|i| f(i)).collect::<Vec<_>>() for the element formats the
\* generator uses.
\* The type parameters numbered from one.
TypeParamsFromOne(n) == [i \in 1..n |-> "T" \o Fmt(i)]

TypeParams(n) == [i \in 1..n |-> "T" \o Fmt(i - 1)]
Members(n) == [i \in 1..n |-> "T" \o Fmt(i - 1) \o " T" \o Fmt(i - 1)]
MemberReads(n) == [i \in 1..n |-> "t.T" \o Fmt(i - 1)]
NewArgs(n) == [i \in 1..n |-> "t" \o Fmt(i - 1) \o " T" \o Fmt(i - 1)]
ArgNames(n) == [i \in 1..n |-> "t" \o Fmt(i - 1)]

(***************************************************************************)
(* The generated files (write_nary_tuple, the text it writes).             *)
(***************************************************************************)
constraints(n) ==
    IF n = 0 THEN "" ELSE "[" \o Join(TypeParams(n), ", ") \o " any]"

tuple_members(n) == IF n = 0 THEN "" ELSE Join(Members(n), "\n\t")

inst_params(n) ==
    IF n = 0 THEN "" ELSE "[" \o Join(TypeParams(n), ", ") \o "]"

multiple_ret(n) ==
    IF n = 0 THEN "" ELSE "(" \o Join(TypeParams(n), ", ") \o ") "

multiple_ret_body(n) ==
    IF n = 0 THEN "" ELSE "return " \o Join(MemberReads(n), ", ")

new_args(n) == Join(NewArgs(n), ", ")

struct_inst_body(n) == Join(ArgNames(n), ", ")

GoMod(n) == "module pkg.golang.fail/tuple/" \o Fmt(n) \o "/tuple\n\ngo 1.18"

TupleGo(n) ==
    "// Package tuple provides an " \o Fmt(n)
    \o "-ary tuple implementation. This is useful for cases\n"
    \o "// where multiple values should be grouped together, such as for passing across channels.\n"
    \o "// Multiple returns and n-ary tuples may be converted between as well by using the 'New' method to\n"
    \o "// go from n-ary return to a Tuple, and using Tuple.Unpack to convert in the other direction.\n"
    \o "package tuple\n\n"
    \o "// Tuple implements an " \o Fmt(n) \o "-ary generic tuple.\n"
    \o "// It may be used\n"
    \o "type Tuple" \o constraints(n) \o " struct {\n"
    \o "\t" \o tuple_members(n) \o "\n"
    \o "}\n\n"
    \o "// New constructs a new tuple from the given arguments.\n"
    \o "func New" \o constraints(n) \o "(" \o new_args(n) \o ") Tuple"
    \o inst_params(n) \o " {\n"
    \o "\treturn Tuple" \o inst_params(n) \o "{" \o struct_inst_body(n) \o "}\n"
    \o "}\n\n"
    \o "// Unpack unpacks a Tuple via multiple-return of the contained data.\n"
    \o "func (t Tuple" \o inst_params(n) \o ") Unpack() " \o multiple_ret(n) \o "{\n"
    \o "\t" \o multiple_ret_body(n) \o "\n"
    \o "}\n"

\* include_bytes!("./BSD3_LICENSE"): one fixed text, the same for every key.
BSD3_LICENSE == "BSD 3-Clause License"

(***************************************************************************)
(* Directories under "repos".  A directory is a record: the files of its   *)
(* work tree (name, content pairs) and the git repository in it: whether   *)
(* it was initialised, the tree object written, the commits, the refs and  *)
(* HEAD.                                                                   *)
(***************************************************************************)
AbsentDir ==
    [exists |-> FALSE, files |-> {}, init |-> FALSE, tree |-> {},
     commits |-> {}, refs |-> {}, head |-> ""]

EmptyDir == [AbsentDir EXCEPT !.exists = TRUE]

\* A directory that exists and has entries: rename(2) refuses to replace it.
NonEmpty(d) == d.exists /\ (d.files # {} \/ d.init)

\* format!("repos/{}", n)
RepoPath(n) == "repos/" \o Fmt(n)

\* The names tempfile::TempDir::new_in("repos") can draw.
TmpPaths == {"repos/.tmp" \o Fmt(i) : i \in 1..NumTmpNames}

Paths == {RepoPath(n) : n \in Keys} \cup TmpPaths

\* File::create(root.join(name)) followed by write_all(content).
WriteFile(d, name, content) ==
    [d EXCEPT !.files = {f \in @ : f[1] # name} \cup {<<name, content>>}]

\* git2::Repository::init: an empty repository whose HEAD names the
\* default branch, which has no commit yet.
RepositoryInit(d) == [d EXCEPT !.init = TRUE, !.head = "refs/heads/master"]

\* index.add_path of the three files, then write_tree: the tree object
\* holds the files as they are in the work tree.
IndexPaths == {"go.mod", "tuple.go", "LICENSE"}
WriteTree(d) == [d EXCEPT !.tree = {f \in d.files : f[1] \in IndexPaths}]

\* Signature as git2::Signature::now would build it: stamped with the wall
\* clock.
SignatureNow(now) ==
    [name |-> "Euan Kemp", email |-> "euank" \o "@" \o "euank.com",
     time |-> now, offset |-> 0]

\* git2::Signature::new("Euan Kemp", "euank@euank.com", Time::new(420, 69)).
\* now is the wall clock at the call, which Signature::new does not read.
Signature(now) ==
    [name |-> "Euan Kemp", email |-> "euank" \o "@" \o "euank.com",
     time |-> 420, offset |-> 69]

\* repo.commit(Some("refs/heads/main"), &sig, &sig, "Initial commit", &tree, &[])
Commit(d, sig) ==
    LET c == [author |-> sig, committer |-> sig, message |-> "Initial commit",
              tree |-> d.tree, parents |-> <<>>]
    IN [d EXCEPT !.commits = @ \cup {c},
                 !.refs = {x \in @ : x[1] # "refs/heads/main"}
                          \cup {<<"refs/heads/main", c>>}]

\* repo.set_head("refs/heads/main")
SetHead(d) == [d EXCEPT !.head = "refs/heads/main"]

(***************************************************************************)
(* Requests.  The route hands the handler the key n and the subpath under  *)
(* tuple.git (Path), the query map (Query) and the request, whose body     *)
(* arrives as a sequence of data chunks.                                   *)
(*                                                                         *)
(* The model draws each input where the handler first reads it: n on       *)
(* arrival (init_repo(n) is the first statement), the subpath and the      *)
(* query at match path.as_str(), the body at data().await.  An input   *)
(* the handler has not read yet has influenced no step, so the states      *)
(* reached are those of drawing every input on arrival.                    *)
(***************************************************************************)
\* The subpaths requested: the two served and one that is not.
Subpaths == {"/info/refs", "/git-upload-pack", "/HEAD"}

\* Query(HashMap<String, String>): a set of (key, value) pairs.
Queries ==
    {{}} \cup {{<<"service", s>>} : s \in {"", "git-upload-pack", "git-receive-pack"}}

\* The subpath and query of the requests served.  The query is drawn for
\* "/info/refs", the one arm that reads it.
Targets ==
    {[path |-> "/info/refs", query |-> q] : q \in Queries}
    \cup {[path |-> p, query |-> {}] : p \in Subpaths \ {"/info/refs"}}

Chunk(i) == "chunk" \o Fmt(i)
\* The request bodies: 0..MaxChunks data chunks.
Bodies == {[i \in 1..k |-> Chunk(i)] : k \in 0..MaxChunks}

RECURSIVE Concat(_)
\* The bytes of a body: its chunks, in order.
Concat(chunks) ==
    IF Len(chunks) = 0 THEN "" ELSE chunks[1] \o Concat(Tail(chunks))

NoRequest == [n |-> 0, path |-> "", query |-> {}]

\* query.get("service").unwrap_or(&"".to_string())
QueryGetOr(q, k, default) ==
    IF \E p \in q : p[1] = k THEN (CHOOSE p \in q : p[1] = k)[2] ELSE default

\* The service test left out: every service value is let through.
ServiceSupportedAny(q) == TRUE

\* The service test with the supported name as the default of a missing
\* parameter.
ServiceSupportedDefault(q) ==
    QueryGetOr(q, "service", "git-upload-pack") = "git-upload-pack"

\* The test of line 150, negated: the service the client asked for is the
\* one served.
ServiceSupported(q) == QueryGetOr(q, "service", "") = "git-upload-pack"

(***************************************************************************)
(* The delegated git-upload-pack process.                                  *)
(***************************************************************************)
NoChild == [op |-> "", repo |-> "", stdin |-> "", stdout |-> "", status |-> ""]

OutBlock(i) == "out" \o Fmt(i)
RECURSIVE Output(_)
Output(k) == IF k = 0 THEN "" ELSE Output(k - 1) \o OutBlock(k)
\* What a child may write to its standard output.
Outputs == {Output(k) : k \in 0..MaxOut}

\* ExitStatus values and ExitStatus::success.
ExitStatuses == {"exit status: 0", "exit status: 128"}
Success(status) == status = "exit status: 0"

(***************************************************************************)
(* Responses and results.                                                  *)
(***************************************************************************)
\* No response was written: the connection was closed.
NoResponse == [status |-> "", ctype |-> "", body |-> ""]

\* Response::builder().header("Content-Type", ctype).body(body): status 200.
Response(ctype, body) == [status |-> "200 OK", ctype |-> ctype, body |-> body]

Ok(response) == [tag |-> "Ok", err |-> "", resp |-> response]
Err(e) == [tag |-> "Err", err |-> e, resp |-> NoResponse]
Panicked(msg) == [tag |-> "Panic", err |-> msg, resp |-> NoResponse]

\* The refs-discovery body without the flush packet after the announcement.
AdvertiseBodyNoFlush(stdout) == "001e# service=git-upload-pack\n" \o stdout

\* The body of the refs-discovery response (lines 172-175).
AdvertiseBody(stdout) == "001e# service=git-upload-pack\n0000" \o stdout

AdvertiseResponse(stdout) ==
    Response("application/x-git-upload-pack-advertisement", AdvertiseBody(stdout))

\* The pack-negotiation response (lines 213-216).
NegotiateResponse(out) == Response("application/x-git-upload-pack-result", out)

\* The handler answering an error with the error's text.
HandlerResponseDetail(res) ==
    CASE res.tag = "Ok" -> res.resp
      [] res.tag = "Err" ->
            [status |-> "500 Internal Server Error", ctype |-> "",
             body |-> res.err]
      [] OTHER -> NoResponse

\* tuple_n_git_handler: what the caller receives for a result of tuple_n_git.
\* A panic unwinds the request's task: nothing is sent.
HandlerResponse(res) ==
    CASE res.tag = "Ok" -> res.resp
      [] res.tag = "Err" ->
            [status |-> "500 Internal Server Error", ctype |-> "",
             body |-> "internal server error"]
      [] OTHER -> NoResponse

\* tuple_n_git_handler: what it prints for a result of tuple_n_git.
HandlerLog(res) ==
    IF res.tag = "Err" THEN <<"unhandled git error: " \o res.err>> ELSE <<>>

(***************************************************************************)
(* State.                                                                  *)
(***************************************************************************)
VARIABLES
    rootExists, \* the directory "repos" exists
    fs,         \* the directories under "repos", by path
    pc,         \* each request's place in the handler
    req,        \* each request's inputs, as far as read
    tmp,        \* init_repo: the staging directory (tmp, tmp_path)
    repo,       \* tuple_n_git: the path init_repo returned
    body,       \* tuple_n_git: the body of req
    bodyData,   \* tuple_n_git: body_data
    child,      \* tuple_n_git: the delegated process
    captured,   \* tuple_n_git: output.stdout / resp, as read from the child
    result,     \* the result of tuple_n_git: its tag and error
    resp,       \* what the caller received
    log,        \* the error reports the request printed
    workers     \* the number of worker threads of the tokio runtime

storeVars == <<rootExists, fs>>
gitVars == <<body, bodyData, child, captured>>
localVars == <<tmp, repo, body, bodyData, child, captured>>
endVars == <<result, resp, log>>
vars == <<rootExists, fs, pc, req, tmp, repo, body, bodyData, child, captured,
          result, resp, log, workers>>

NoData == [tag |-> "", val |-> ""]

Init ==
    /\ rootExists = FALSE
    /\ fs = [p \in Paths |-> AbsentDir]
    /\ pc = [r \in Requests |-> "idle"]
    /\ req = [r \in Requests |-> NoRequest]
    /\ tmp = [r \in Requests |-> ""]
    /\ repo = [r \in Requests |-> ""]
    /\ body = [r \in Requests |-> <<>>]
    /\ bodyData = [r \in Requests |-> NoData]
    /\ child = [r \in Requests |-> NoChild]
    /\ captured = [r \in Requests |-> ""]
    /\ result = [r \in Requests |-> [tag |-> "Pending", err |-> ""]]
    /\ resp = [r \in Requests |-> NoResponse]
    /\ log = [r \in Requests |-> <<>>]
    /\ workers \in 1..MaxWorkers

\* The request ends with res: tuple_n_git_handler turns it into the
\* response and the log line, and the locals of the handler are dropped.
Finish(r, res) ==
    /\ pc' = [pc EXCEPT ![r] = "done"]
    /\ result' = [result EXCEPT ![r] = [tag |-> res.tag, err |-> res.err]]
    /\ resp' = [resp EXCEPT ![r] = HandlerResponse(res)]
    /\ log' = [log EXCEPT ![r] = @ \o HandlerLog(res)]
    /\ tmp' = [tmp EXCEPT ![r] = ""]
    /\ repo' = [repo EXCEPT ![r] = ""]
    /\ body' = [body EXCEPT ![r] = <<>>]
    /\ bodyData' = [bodyData EXCEPT ![r] = NoData]
    /\ child' = [child EXCEPT ![r] = NoChild]
    /\ captured' = [captured EXCEPT ![r] = ""]
    /\ UNCHANGED workers

Goto(r, label) ==
    /\ pc' = [pc EXCEPT ![r] = label]
    /\ UNCHANGED <<endVars, workers>>

\* The places where a request's task holds no worker thread: not yet
\* polled, finished, or suspended at the one await of tuple_n_git that can
\* be pending (req.body_mut().data().await).  Everywhere else the handler
\* runs synchronous code, blocking calls on the delegated process
\* included, on the worker thread that polled it.
Parked == {"idle", "queued", "done", "body_data"}

OnWorker == {r \in Requests : pc[r] \notin Parked}

\* A worker thread is free to poll a task.
FreeWorker == Cardinality(OnWorker) < workers

\* A new request arrives on a free slot: its task is spawned and waits for
\* a worker thread.
Accept(r) ==
    /\ pc[r] \in {"idle", "done"}
    /\ \E n \in Keys : req' = [req EXCEPT ![r] = [NoRequest EXCEPT !.n = n]]
    /\ pc' = [pc EXCEPT ![r] = "queued"]
    /\ result' = [result EXCEPT ![r] = [tag |-> "Pending", err |-> ""]]
    /\ resp' = [resp EXCEPT ![r] = NoResponse]
    /\ log' = [log EXCEPT ![r] = <<>>]
    /\ UNCHANGED <<storeVars, localVars, workers>>

\* A free worker thread polls the request's task: tuple_n_git_handler
\* starts and calls init_repo(n).
Poll(r) ==
    /\ pc[r] = "queued"
    /\ FreeWorker
    /\ Goto(r, "read_dir")
    /\ UNCHANGED <<storeVars, req, localVars>>

(***************************************************************************)
(* init_repo                                                               *)
(***************************************************************************)
\* The path of the request's key.
path(r) == RepoPath(req[r].n)

\* read_dir finds the directory and init_repo creates the repository anyway.
ReadDirFoundRecreates(r) ==
    /\ pc[r] = "read_dir"
    /\ fs[path(r)].exists
    /\ Goto(r, "create_dir_all")
    /\ UNCHANGED <<storeVars, req, localVars>>

\* match std::fs::read_dir(&path): the directory is there, so return it.
ReadDirFound(r) ==
    /\ pc[r] = "read_dir"
    /\ fs[path(r)].exists
    /\ repo' = [repo EXCEPT ![r] = path(r)]
    /\ Goto(r, "match_path")
    /\ UNCHANGED <<storeVars, req, tmp, gitVars>>

\* match std::fs::read_dir(&path): NotFound, so the repository is created.
\* (The line printed here reports no error; log keeps the error reports.)
ReadDirNotFound(r) ==
    /\ pc[r] = "read_dir"
    /\ ~fs[path(r)].exists
    /\ Goto(r, "create_dir_all")
    /\ UNCHANGED <<storeVars, req, localVars>>

\* std::fs::create_dir_all("repos")
CreateDirAll(r) ==
    /\ pc[r] = "create_dir_all"
    /\ rootExists' = TRUE
    /\ Goto(r, "tempdir")
    /\ UNCHANGED <<fs, req, localVars>>

\* tempfile::TempDir::new_in("repos"): a new empty directory under a name
\* that is not in use.
TempDirNewIn(r) ==
    /\ pc[r] = "tempdir"
    /\ rootExists
    /\ \E t \in TmpPaths :
          /\ ~fs[t].exists
          /\ fs' = [fs EXCEPT ![t] = EmptyDir]
          /\ tmp' = [tmp EXCEPT ![r] = t]
    /\ Goto(r, "go_mod")
    /\ UNCHANGED <<rootExists, req, repo, gitVars>>

\* One statement of write_nary_tuple(tmp.path(), n) changes the staging
\* directory to next and goes on at label.
Stage(r, from, next, label) ==
    /\ pc[r] = from
    /\ fs' = [fs EXCEPT ![tmp[r]] = next]
    /\ Goto(r, label)
    /\ UNCHANGED <<rootExists, req, localVars>>

WriteGoMod(r) ==
    Stage(r, "go_mod", WriteFile(fs[tmp[r]], "go.mod", GoMod(req[r].n)), "tuple_go")

WriteTupleGo(r) ==
    Stage(r, "tuple_go", WriteFile(fs[tmp[r]], "tuple.go", TupleGo(req[r].n)), "license")

WriteLicense(r) ==
    Stage(r, "license", WriteFile(fs[tmp[r]], "LICENSE", BSD3_LICENSE), "git_init")

GitInit(r) == Stage(r, "git_init", RepositoryInit(fs[tmp[r]]), "write_tree")

IndexWriteTree(r) == Stage(r, "write_tree", WriteTree(fs[tmp[r]]), "commit")

RepoCommit(r) ==
    \E now \in Clock :
        Stage(r, "commit", Commit(fs[tmp[r]], Signature(now)), "set_head")

RepoSetHead(r) == Stage(r, "set_head", SetHead(fs[tmp[r]]), "rename")

\* The places of init_repo whose I/O can fail with ? before the rename.
BeforeStaging == {"read_dir", "create_dir_all", "tempdir"}
Staging == {"go_mod", "tuple_go", "license", "git_init", "write_tree",
            "commit", "set_head"}

\* The error of write_nary_tuple is dropped: init_repo goes on to rename the
\* staging directory as it is.
WriteErrorIgnored(r) ==
    /\ pc[r] \in BeforeStaging \cup Staging
    /\ IF pc[r] \in Staging
       THEN Goto(r, "rename") /\ UNCHANGED <<fs, localVars>>
       ELSE Finish(r, Err("io error")) /\ UNCHANGED fs
    /\ UNCHANGED <<rootExists, req>>

\* The error path cleaning up the canonical path of the key as well.
InitRepoErrorRemovesTarget(r) ==
    /\ pc[r] \in BeforeStaging \cup Staging
    /\ fs' = IF pc[r] \in Staging
             THEN [fs EXCEPT ![tmp[r]] = AbsentDir, ![path(r)] = AbsentDir]
             ELSE fs
    /\ Finish(r, Err("io error"))
    /\ UNCHANGED <<rootExists, req>>

\* An I/O operation of init_repo fails (for read_dir: with an error other
\* than NotFound) and ? returns the error.  Once the staging directory
\* exists, dropping the TempDir removes it.
InitRepoError(r) ==
    /\ pc[r] \in BeforeStaging \cup Staging
    /\ fs' = IF pc[r] \in Staging THEN [fs EXCEPT ![tmp[r]] = AbsentDir] ELSE fs
    /\ Finish(r, Err("io error"))
    /\ UNCHANGED <<rootExists, req>>

\* A rename that reports AlreadyExists whatever is at the destination.
RenameResultsSpurious(dst) == {"AlreadyExists", "Other"}

\* What std::fs::rename(src, dst) of a directory can report.  A destination
\* that is a non-empty directory is refused, with EEXIST or with ENOTEMPTY
\* (rename(2) allows both; Linux reports ENOTEMPTY), which Rust reads as
\* AlreadyExists and DirectoryNotEmpty.  "Other" is any other failure.
RenameResults(dst) ==
    (IF NonEmpty(dst) THEN {"AlreadyExists", "DirectoryNotEmpty"} ELSE {"Ok"})
    \cup {"Other"}

\* std::fs::rename(&tmp_path, &path) and the match on its result, up to
\* the arm taken: Ok returns the path, AlreadyExists goes on to remove the
\* staging directory, any other error is returned (the staging directory,
\* persisted by into_path, stays).
Rename(r) ==
    /\ pc[r] = "rename"
    /\ \E res \in RenameResults(fs[path(r)]) :
          CASE res = "Ok" ->
                  /\ fs' = [fs EXCEPT ![path(r)] = fs[tmp[r]],
                                      ![tmp[r]] = AbsentDir]
                  /\ repo' = [repo EXCEPT ![r] = path(r)]
                  /\ tmp' = [tmp EXCEPT ![r] = ""]
                  /\ Goto(r, "match_path")
                  /\ UNCHANGED gitVars
            [] res = "AlreadyExists" ->
                  /\ Goto(r, "remove_dir_all")
                  /\ UNCHANGED <<fs, localVars>>
            [] OTHER ->
                  /\ Finish(r, Err("rename: " \o res))
                  /\ UNCHANGED fs
    /\ UNCHANGED <<rootExists, req>>

\* The AlreadyExists arm removing the canonical path instead.
RemoveTargetIsPath(r) == path(r)

\* The directory the AlreadyExists arm removes.
RemoveTarget(r) == tmp[r]

\* let _ = std::fs::remove_dir_all(&tmp_path); Ok(path)
\* The removal may fail; its result is dropped.
RemoveDirAll(r) ==
    /\ pc[r] = "remove_dir_all"
    /\ \E removed \in BOOLEAN :
          fs' = IF removed THEN [fs EXCEPT ![RemoveTarget(r)] = AbsentDir] ELSE fs
    /\ repo' = [repo EXCEPT ![r] = path(r)]
    /\ tmp' = [tmp EXCEPT ![r] = ""]
    /\ Goto(r, "match_path")
    /\ UNCHANGED <<rootExists, req, gitVars>>

(***************************************************************************)
(* tuple_n_git, after init_repo(n)? returned the repository path           *)
(***************************************************************************)
\* match path.as_str(), with the service test of the "/info/refs" arm.
MatchPath(r) ==
    /\ pc[r] = "match_path"
    /\ \E t \in Targets :
          /\ req' = [req EXCEPT ![r].path = t.path, ![r].query = t.query]
          /\ CASE t.path = "/info/refs" ->
                    IF ServiceSupported(t.query)
                    THEN Goto(r, "advertise_spawn") /\ UNCHANGED localVars
                    ELSE Finish(r, Err("unsupported service; use a better git client"))
               [] t.path = "/git-upload-pack" ->
                    Goto(r, "body_data") /\ UNCHANGED localVars
               [] OTHER -> Finish(r, Err("not supported: " \o t.path))
    /\ UNCHANGED storeVars

\* Command::new("git-upload-pack").arg(op).arg(repo)...spawn()
Spawn(r, op) == [child EXCEPT ![r] = [NoChild EXCEPT !.op = op, !.repo = repo[r]]]

\* "/info/refs": spawn git-upload-pack --advertise-refs <repo>, stdin null.
AdvertiseSpawn(r) ==
    /\ pc[r] = "advertise_spawn"
    /\ child' = Spawn(r, "--advertise-refs")
    /\ Goto(r, "advertise_wait")
    /\ UNCHANGED <<storeVars, req, tmp, repo, body, bodyData, captured>>

\* spawn().unwrap() when the process cannot be started, and
\* wait_with_output().unwrap() when waiting fails: a panic.
UnwrapPanic(r) ==
    /\ pc[r] \in {"advertise_spawn", "advertise_wait", "negotiate_spawn"}
    /\ Finish(r, Panicked("unwrap on Err"))
    /\ UNCHANGED <<storeVars, req>>

\* let output = child.wait_with_output().unwrap(): the child writes out
\* and exits with status; output.stdout is all it wrote.
AdvertiseWait(r) ==
    /\ pc[r] = "advertise_wait"
    /\ \E out \in Outputs, status \in ExitStatuses :
          /\ child' = [child EXCEPT ![r].stdout = out, ![r].status = status]
          /\ captured' = [captured EXCEPT ![r] = out]
    /\ Goto(r, "advertise_respond")
    /\ UNCHANGED <<storeVars, req, tmp, repo, body, bodyData>>

\* The status test of line 165 starting the child again when it failed.
AdvertiseRespondRetries(r) ==
    /\ pc[r] = "advertise_respond"
    /\ IF ~Success(child[r].status)
       THEN /\ Goto(r, "advertise_spawn")
            /\ child' = [child EXCEPT ![r] = NoChild]
            /\ UNCHANGED <<tmp, repo, body, bodyData, captured>>
       ELSE Finish(r, Ok(AdvertiseResponse(captured[r])))
    /\ UNCHANGED <<storeVars, req>>

\* The status test of line 165 and the response of lines 172-183.
AdvertiseRespond(r) ==
    /\ pc[r] = "advertise_respond"
    /\ IF ~Success(child[r].status)
       THEN Finish(r, Err("git-upload-pack --advertise-refs did not have success: "
                          \o child[r].status))
       ELSE Finish(r, Ok(AdvertiseResponse(captured[r])))
    /\ UNCHANGED <<storeVars, req>>

\* req.body_mut().data().await: the next data chunk of the body, if any;
\* reading it may fail.
NextData(b) ==
    IF Len(b) = 0 THEN {[tag |-> "None", val |-> ""]}
    ELSE {[tag |-> "Some(Ok)", val |-> b[1]], [tag |-> "Some(Err)", val |-> ""]}

\* let body_data = req.body_mut().data().await.unwrap();
\* None (a body without data) panics in unwrap.
BodyDataAwait(r) ==
    /\ pc[r] = "body_data"
    /\ FreeWorker
    /\ \E b \in Bodies : \E d \in NextData(b) :
          IF d.tag = "None"
          THEN Finish(r, Panicked("unwrap on None"))
          ELSE /\ body' = [body EXCEPT ![r] = b]
               /\ bodyData' = [bodyData EXCEPT ![r] = d]
               /\ Goto(r, "negotiate_spawn")
               /\ UNCHANGED <<tmp, repo, child, captured>>
    /\ UNCHANGED <<storeVars, req>>

\* "/git-upload-pack": spawn git-upload-pack --stateless-rpc <repo>.
NegotiateSpawn(r) ==
    /\ pc[r] = "negotiate_spawn"
    /\ child' = Spawn(r, "--stateless-rpc")
    /\ Goto(r, "negotiate_write")
    /\ UNCHANGED <<storeVars, req, tmp, repo, body, bodyData, captured>>

\* child_in.write_all(&body_data.unwrap())?; flush; drop: the child's
\* standard input is what was written.  body_data.unwrap() panics when
\* reading the chunk failed.
NegotiateWrite(r) ==
    /\ pc[r] = "negotiate_write"
    /\ IF bodyData[r].tag = "Some(Err)"
       THEN Finish(r, Panicked("unwrap on Err"))
       ELSE /\ child' = [child EXCEPT ![r].stdin = bodyData[r].val]
            /\ Goto(r, "negotiate_read")
            /\ UNCHANGED <<tmp, repo, body, bodyData, captured>>
    /\ UNCHANGED <<storeVars, req>>

\* resp_body.read_to_end(&mut resp)?: the child writes out, all of which
\* is read.
NegotiateRead(r) ==
    /\ pc[r] = "negotiate_read"
    /\ \E out \in Outputs :
          /\ child' = [child EXCEPT ![r].stdout = out]
          /\ captured' = [captured EXCEPT ![r] = out]
    /\ Goto(r, "negotiate_wait")
    /\ UNCHANGED <<storeVars, req, tmp, repo, body, bodyData>>

\* let child_res = child.wait()?: the child exits with some status.
NegotiateWait(r) ==
    /\ pc[r] = "negotiate_wait"
    /\ \E status \in ExitStatuses :
          child' = [child EXCEPT ![r].status = status]
    /\ Goto(r, "negotiate_respond")
    /\ UNCHANGED <<storeVars, req, tmp, repo, body, bodyData, captured>>

\* The status test of line 208 and the response of lines 213-216.
NegotiateRespond(r) ==
    /\ pc[r] = "negotiate_respond"
    /\ IF ~Success(child[r].status)
       THEN Finish(r, Err("git-upload-pack did not exit with success"))
       ELSE Finish(r, Ok(NegotiateResponse(captured[r])))
    /\ UNCHANGED <<storeVars, req>>

\* The places where the worker thread is blocked on the delegated process:
\* wait_with_output, read_to_end, wait.
BlockedOnChild == {"advertise_wait", "negotiate_read", "negotiate_wait"}

\* The delegated process never writes on, closes its output or exits:
\* the blocking call the handler is in never returns, and the worker
\* thread stays in it.
ChildHangs(r) ==
    /\ pc[r] \in BlockedOnChild
    /\ Goto(r, "hung")
    /\ UNCHANGED <<storeVars, req, localVars>>

\* write_all, flush, read_to_end or wait fails and ? returns the error.
PipeError(r) ==
    /\ pc[r] \in {"negotiate_write", "negotiate_read", "negotiate_wait"}
    /\ bodyData[r].tag = "Some(Ok)"
    /\ Finish(r, Err("io error"))
    /\ UNCHANGED <<storeVars, req>>

Next ==
    \E r \in Requests :
        \/ Accept(r)
        \/ Poll(r)
        \/ ReadDirFound(r)
        \/ ReadDirNotFound(r)
        \/ CreateDirAll(r)
        \/ TempDirNewIn(r)
        \/ WriteGoMod(r)
        \/ WriteTupleGo(r)
        \/ WriteLicense(r)
        \/ GitInit(r)
        \/ IndexWriteTree(r)
        \/ RepoCommit(r)
        \/ RepoSetHead(r)
        \/ InitRepoError(r)
        \/ Rename(r)
        \/ RemoveDirAll(r)
        \/ MatchPath(r)
        \/ AdvertiseSpawn(r)
        \/ UnwrapPanic(r)
        \/ AdvertiseWait(r)
        \/ AdvertiseRespond(r)
        \/ BodyDataAwait(r)
        \/ NegotiateSpawn(r)
        \/ NegotiateWrite(r)
        \/ NegotiateRead(r)
        \/ NegotiateWait(r)
        \/ NegotiateRespond(r)
        \/ PipeError(r)
        \/ ChildHangs(r)

Spec == Init /\ [][Next]_vars

(***************************************************************************)
(* The generator on its own: write_nary_tuple(root, n) called on a fresh   *)
(* directory for any arity, up to the files it writes.                     *)
(***************************************************************************)
GenStart(r) ==
    /\ pc[r] = "idle"
    /\ \E n \in Arities, t \in TmpPaths :
          /\ ~fs[t].exists
          /\ req' = [req EXCEPT ![r] = [NoRequest EXCEPT !.n = n]]
          /\ fs' = [fs EXCEPT ![t] = EmptyDir]
          /\ tmp' = [tmp EXCEPT ![r] = t]
    /\ Goto(r, "go_mod")
    /\ UNCHANGED <<rootExists, repo, gitVars>>

GenNext ==
    \E r \in Requests :
        \/ GenStart(r)
        \/ WriteGoMod(r)
        \/ WriteTupleGo(r)
        \/ WriteLicense(r)

SpecGen == Init /\ [][GenNext]_vars

\* The steps of request r that the handler's code takes once a worker
\* thread runs it (the hang of a delegated process is not one of them).
Run(r) ==
    \/ ReadDirFound(r) \/ ReadDirNotFound(r) \/ CreateDirAll(r)
    \/ TempDirNewIn(r) \/ WriteGoMod(r) \/ WriteTupleGo(r) \/ WriteLicense(r)
    \/ GitInit(r) \/ IndexWriteTree(r) \/ RepoCommit(r) \/ RepoSetHead(r)
    \/ InitRepoError(r) \/ Rename(r) \/ RemoveDirAll(r) \/ MatchPath(r)
    \/ AdvertiseSpawn(r) \/ UnwrapPanic(r) \/ AdvertiseWait(r)
    \/ AdvertiseRespond(r) \/ NegotiateSpawn(r) \/ NegotiateWrite(r)
    \/ NegotiateRead(r) \/ NegotiateWait(r) \/ NegotiateRespond(r)
    \/ PipeError(r)

\* Fair scheduling: the runtime's run queue is first in, first out, so a
\* task that can be polled again and again is polled (strong fairness for
\* the two places where a task waits for a worker), and a thread that runs
\* a handler keeps running it.
SpecFair ==
    /\ Spec
    /\ \A r \in Requests :
          /\ SF_vars(Poll(r))
          /\ SF_vars(BodyDataAwait(r))
          /\ WF_vars(Run(r))

(***************************************************************************)
(* Properties                                                              *)
(***************************************************************************)
\* The repository write_nary_tuple builds for key n, when all of it ran.
IsComplete(d, n) ==
    /\ d.exists
    /\ d.init
    /\ d.files = {<<"go.mod", GoMod(n)>>, <<"tuple.go", TupleGo(n)>>,
                  <<"LICENSE", BSD3_LICENSE>>}
    /\ Cardinality(d.commits) = 1
    /\ \E c \in d.commits :
          /\ c.tree = d.files
          /\ c.parents = <<>>
          /\ c.author = [name |-> "Euan Kemp", email |-> "euank@euank.com",
                         time |-> 420, offset |-> 69]
          /\ c.committer = c.author
          /\ d.refs = {<<"refs/heads/main", c>>}
    /\ d.head = "refs/heads/main"

\* The places of a request inside init_repo.
InInitRepo == BeforeStaging \cup Staging \cup {"rename", "remove_dir_all"}

\* The errors a rename refused because the destination exists can carry.
RaceErrors == {"rename: AlreadyExists", "rename: DirectoryNotEmpty"}

\* C1: barring other I/O faults, no caller of init_repo fails because its
\* rename found the canonical path already there (each such caller returns
\* success), and every caller that returned holds the path repos/n of its
\* key.
C1_RaceLosersSucceed ==
    \A r \in Requests :
        /\ result[r].tag = "Err" => result[r].err \notin RaceErrors
        /\ repo[r] # "" => repo[r] = RepoPath(req[r].n)

\* C2: the canonical path of every key is absent or holds the complete
\* repository of that key, in every reachable state.
C2_CanonicalComplete ==
    \A n \in Keys :
        fs[RepoPath(n)].exists => IsComplete(fs[RepoPath(n)], n)

\* C2 witness: a staging directory is half written (its commit is still to
\* come) for a key whose canonical directory exists.
C2_Witness ==
    \E r \in Requests :
        /\ pc[r] = "commit"
        /\ fs[path(r)].exists
        /\ fs[tmp[r]].exists /\ ~IsComplete(fs[tmp[r]], req[r].n)

\* C3: a caller whose rename is refused because the canonical directory
\* exists (and hits no other fault) does not return from init_repo while
\* its staging directory is still there.
C3_LosersRemoveStaging ==
    [][\A r \in Requests :
          (/\ pc[r] = "rename"
           /\ NonEmpty(fs[path(r)])
           /\ pc'[r] \in {"match_path", "done"}
           /\ result'[r].err # "rename: Other")
          => ~fs'[tmp[r]].exists]_vars

\* C4: when the canonical directory of its key exists at the existence
\* check, the call does not touch the store, creates no staging directory
\* and starts nothing: it returns the canonical path at once (or, if the
\* check itself fails, the I/O error).
C4_FastPath ==
    [][\A r \in Requests :
          (pc[r] = "read_dir" /\ fs[path(r)].exists /\ pc'[r] # pc[r])
          => /\ fs' = fs /\ rootExists' = rootExists
             /\ tmp'[r] = "" /\ child'[r] = NoChild
             /\ \/ /\ pc'[r] = "match_path"
                   /\ repo'[r] = path(r)
                \/ /\ pc'[r] = "done"
                   /\ result'[r] = [tag |-> "Err", err |-> "io error"]]_vars

\* C4 witness: a request is at the existence check of a key whose
\* canonical directory exists, while the other request is staging: the
\* fast path is the step it takes next.
C4_Witness ==
    \E r, q \in Requests :
        /\ pc[r] = "read_dir"
        /\ IsComplete(fs[path(r)], req[r].n)
        /\ ENABLED ReadDirFound(r)
        /\ pc[q] \in Staging

\* C5: a canonical directory that exists is the same directory, with the
\* same content, after every step of every request.
C5_CanonicalImmutable ==
    [][\A n \in Keys :
          fs[RepoPath(n)].exists => fs'[RepoPath(n)] = fs[RepoPath(n)]]_vars

\* C5 witness: a canonical directory has outlived a lost rename race and a
\* served request.
C5_Witness ==
    \E r, q \in Requests :
        /\ r # q
        /\ req[r].n = req[q].n
        /\ fs[path(r)].exists
        /\ pc[r] = "remove_dir_all"
        /\ pc[q] = "done" /\ resp[q].status = "200 OK"

\* The places where a request holds a finished staging directory.
Staged == {"rename", "remove_dir_all"}

\* C6: two finished staging directories of one key hold the same
\* repository, and a finished staging directory equals the canonical
\* directory of its key whenever that exists.
C6_SameContent ==
    /\ \A r, q \in Requests :
          (pc[r] \in Staged /\ pc[q] \in Staged /\ req[r].n = req[q].n)
          => fs[tmp[r]] = fs[tmp[q]]
    /\ \A r \in Requests :
          (pc[r] \in Staged /\ fs[path(r)].exists) => fs[tmp[r]] = fs[path(r)]

\* C6 witness: a race loser is about to discard its staging copy while the
\* winner's copy is at the canonical path.
C6_Witness ==
    \E r \in Requests :
        /\ pc[r] = "remove_dir_all"
        /\ fs[tmp[r]].exists
        /\ fs[path(r)].exists

\* The values of the service parameter in a query.
ServiceValues(q) == {p[2] : p \in {x \in q : x[1] = "service"}}

UnsupportedService(r) ==
    req[r].path = "/info/refs" /\ "git-upload-pack" \notin ServiceValues(req[r].query)

\* C7: a refs-discovery request whose service parameter is not
\* git-upload-pack (empty and absent included) ends with the
\* unsupported-service error and never with a successful response.
C7_UnsupportedServiceRejected ==
    \A r \in Requests :
        (pc[r] = "done" /\ UnsupportedService(r))
        => /\ resp[r].status # "200 OK"
           /\ result[r] = [tag |-> "Err",
                           err |-> "unsupported service; use a better git client"]

\* C7 witness: refs-discovery requests without and with an empty service
\* parameter were rejected.
C7_Witness ==
    \E r, q \in Requests :
        /\ pc[r] = "done" /\ req[r].path = "/info/refs" /\ req[r].query = {}
        /\ result[r].err = "unsupported service; use a better git client"
        /\ pc[q] = "done" /\ req[q].path = "/info/refs"
        /\ req[q].query = {<<"service", "">>}
        /\ result[q].err = "unsupported service; use a better git client"

\* The errors of the taxonomy's ClientProtocolError.
ClientProtocolErrors ==
    {"unsupported service; use a better git client"}
    \cup {"not supported: " \o p : p \in Subpaths}

\* C8: a request that ends with a ClientProtocolError gets a response other
\* than the internal-error response, and no server-fault line is printed.
C8_ClientErrorsRejected ==
    \A r \in Requests :
        (pc[r] = "done" /\ result[r].tag = "Err"
         /\ result[r].err \in ClientProtocolErrors)
        => /\ resp[r] # HandlerResponse(Err("io error"))
           /\ \A i \in 1..Len(log[r]) :
                 log[r][i] # "unhandled git error: " \o result[r].err

\* C9: a refs-discovery request that succeeds answers with the fixed
\* prefix followed by exactly what the advertise child wrote, under the
\* advertisement content type.
C9_AdvertiseFraming ==
    [][\A r \in Requests :
          (pc[r] = "advertise_respond" /\ pc'[r] = "done"
           /\ resp'[r].status = "200 OK")
          => /\ resp'[r].body = "001e# service=git-upload-pack\n0000" \o child[r].stdout
             /\ resp'[r].ctype = "application/x-git-upload-pack-advertisement"]_vars

\* C9 witness: a refs-discovery request succeeded with a non-empty
\* advertisement.
C9_Witness ==
    \E r \in Requests :
        /\ pc[r] = "done"
        /\ req[r].path = "/info/refs"
        /\ resp[r].status = "200 OK"
        /\ resp[r].body = "001e# service=git-upload-pack\n0000" \o Output(1)

\* C10: the negotiate child is given the whole request body, and a
\* successful response is what the child wrote, under the result content
\* type.
C10_FullBodyForwarded ==
    \A r \in Requests :
        /\ pc[r] \in {"negotiate_read", "negotiate_wait"}
           => child[r].stdin = Concat(body[r])
        /\ (pc[r] = "done" /\ req[r].path = "/git-upload-pack"
            /\ resp[r].status = "200 OK")
           => /\ resp[r].body \in Outputs
              /\ resp[r].ctype = "application/x-git-upload-pack-result"

\* The errors of the taxonomy's ExternalToolFailure: the delegated process
\* ended without success.
ToolFailures ==
    {"git-upload-pack --advertise-refs did not have success: " \o s :
        s \in {t \in ExitStatuses : ~Success(t)}}
    \cup {"git-upload-pack did not exit with success"}

\* The opaque internal-error response.
InternalError ==
    [status |-> "500 Internal Server Error", ctype |-> "",
     body |-> "internal server error"]

\* C11: when the delegated process of either phase ends without success,
\* the caller receives the opaque internal-error response (no output of
\* the process, no framing), and the failure is printed on the server.
C11_ToolFailureOpaque ==
    [][\A r \in Requests :
          (/\ pc[r] \in {"advertise_respond", "negotiate_respond"}
           /\ ~Success(child[r].status)
           /\ pc'[r] # pc[r])
          => /\ pc'[r] = "done"
             /\ result'[r].tag = "Err" /\ result'[r].err \in ToolFailures
             /\ resp'[r] = InternalError
             /\ log'[r] = log[r] \o <<"unhandled git error: " \o result'[r].err>>]_vars

\* C11 witness: a refs-discovery and a pack-negotiation request both ended
\* on a delegated process that failed.
C11_Witness ==
    \E r, q \in Requests :
        /\ pc[r] = "done" /\ req[r].path = "/info/refs"
        /\ result[r].err \in ToolFailures /\ resp[r] = InternalError
        /\ pc[q] = "done" /\ req[q].path = "/git-upload-pack"
        /\ result[q].err \in ToolFailures /\ resp[q] = InternalError

\* C12: under fair scheduling, every request that has arrived completes
\* unless its own delegated process hangs, whatever the other requests'
\* delegated processes do.
C12_HangStallsOnlyOwner ==
    \A r \in Requests : (pc[r] = "queued") ~> (pc[r] \in {"done", "hung"})

\* What the generated source is to declare for arity n, entry i (from 0):
\* a type parameter, a member, a constructor argument, the member stored
\* from it, the member returned by Unpack.
Entry(kind, i) ==
    CASE kind = "param" -> "T" \o Fmt(i)
      [] kind = "member" -> "T" \o Fmt(i) \o " T" \o Fmt(i)
      [] kind = "arg" -> "t" \o Fmt(i) \o " T" \o Fmt(i)
      [] kind = "store" -> "t" \o Fmt(i)
      [] kind = "unpack" -> "t.T" \o Fmt(i)

\* Entries 0..n-1 of a kind in declaration order, sep between them.
RECURSIVE Entries(_, _, _)
Entries(kind, n, sep) ==
    IF n = 0 THEN ""
    ELSE IF n = 1 THEN Entry(kind, 0)
    ELSE Entries(kind, n - 1, sep) \o sep \o Entry(kind, n - 1)

\* s between open and close when there is at least one entry, nothing when
\* there is none.
Bracket(n, open, s, close) == IF n = 0 THEN "" ELSE open \o s \o close

\* The source of an n-ary tuple as the specification describes it.
ExpectedSource(n) ==
    "// Package tuple provides an " \o Fmt(n)
    \o "-ary tuple implementation. This is useful for cases\n"
    \o "// where multiple values should be grouped together, such as for passing across channels.\n"
    \o "// Multiple returns and n-ary tuples may be converted between as well by using the 'New' method to\n"
    \o "// go from n-ary return to a Tuple, and using Tuple.Unpack to convert in the other direction.\n"
    \o "package tuple\n\n"
    \o "// Tuple implements an " \o Fmt(n) \o "-ary generic tuple.\n"
    \o "// It may be used\n"
    \o "type Tuple" \o Bracket(n, "[", Entries("param", n, ", "), " any]")
    \o " struct {\n\t" \o Entries("member", n, "\n\t") \o "\n}\n\n"
    \o "// New constructs a new tuple from the given arguments.\n"
    \o "func New" \o Bracket(n, "[", Entries("param", n, ", "), " any]")
    \o "(" \o Entries("arg", n, ", ") \o ") Tuple"
    \o Bracket(n, "[", Entries("param", n, ", "), "]") \o " {\n"
    \o "\treturn Tuple" \o Bracket(n, "[", Entries("param", n, ", "), "]")
    \o "{" \o Entries("store", n, ", ") \o "}\n}\n\n"
    \o "// Unpack unpacks a Tuple via multiple-return of the contained data.\n"
    \o "func (t Tuple" \o Bracket(n, "[", Entries("param", n, ", "), "]")
    \o ") Unpack() " \o Bracket(n, "(", Entries("param", n, ", "), ") ")
    \o "{\n\t" \o Bracket(n, "return ", Entries("unpack", n, ", "), "")
    \o "\n}\n"

\* C13: the tuple.go the generator wrote for arity n declares exactly the
\* type parameters T0..T(n-1), one member per type parameter, a
\* constructor with one argument per member stored in order, and an Unpack
\* returning the members in order; for n = 0 every one of these lists is
\* empty and the brackets are absent.
C13_GeneratedShape ==
    \A r \in Requests :
        pc[r] \in {"license", "git_init"}
        => /\ Len(TypeParams(req[r].n)) = req[r].n
           /\ Len(Members(req[r].n)) = req[r].n
           /\ Len(NewArgs(req[r].n)) = req[r].n
           /\ Len(MemberReads(req[r].n)) = req[r].n
           /\ \E f \in fs[tmp[r]].files :
                 f = <<"tuple.go", ExpectedSource(req[r].n)>>
           /\ \A f \in fs[tmp[r]].files :
                 f[1] = "tuple.go" => f[2] = ExpectedSource(req[r].n)

\* C13 witness: the generator has written the sources of arity 0 and of
\* the largest arity.
C13_Witness ==
    \E r, q \in Requests :
        /\ pc[r] = "git_init" /\ req[r].n = 0
        /\ pc[q] = "git_init" /\ req[q].n = MaxArity
        /\ <<"tuple.go", TupleGo(MaxArity)>> \in fs[tmp[q]].files

\* The places of a request in the order the handler's code visits them.
Order ==
    <<"idle", "queued", "read_dir", "create_dir_all", "tempdir", "go_mod",
      "tuple_go", "license", "git_init", "write_tree", "commit", "set_head",
      "rename", "remove_dir_all", "match_path", "advertise_spawn",
      "advertise_wait", "advertise_respond", "body_data", "negotiate_spawn",
      "negotiate_write", "negotiate_read", "negotiate_wait",
      "negotiate_respond", "hung", "done">>

Rank(label) == CHOOSE i \in 1..Len(Order) : Order[i] = label

AdvertisePhase == {"advertise_spawn", "advertise_wait", "advertise_respond"}
NegotiatePhase == {"body_data", "negotiate_spawn", "negotiate_write",
                   "negotiate_read", "negotiate_wait", "negotiate_respond"}

\* C14: a request moves forward only (Start, repository resolved, one
\* phase, Done): its delegated process is started only once init_repo has
\* returned the repository of its key, it is in the phase its subpath
\* names and never in the other, the process is started at most once, and
\* an error ends the request: no statement runs a second time.
C14_RequestLifecycle ==
    [][\A r \in Requests :
          /\ pc'[r] # pc[r]
             => \/ Rank(pc'[r]) > Rank(pc[r])
                \/ pc[r] = "done" /\ pc'[r] = "queued"
          /\ (child[r].op = "" /\ child'[r].op # "")
             => /\ repo[r] = path(r)
                /\ pc[r] \in {"advertise_spawn", "negotiate_spawn"}
          /\ child[r].op # ""
             => (child'[r].op = child[r].op \/ pc'[r] = "done")
          /\ pc'[r] \in AdvertisePhase
             => /\ req'[r].path = "/info/refs"
                /\ child'[r].op \in {"", "--advertise-refs"}
          /\ pc'[r] \in NegotiatePhase
             => /\ req'[r].path = "/git-upload-pack"
                /\ child'[r].op \in {"", "--stateless-rpc"}
          /\ (result[r].tag = "Pending" /\ result'[r].tag # "Pending")
             => pc'[r] = "done"]_vars

\* C14 witness: one request went through the refs-discovery phase and one
\* through the pack-negotiation phase, both to the end.
C14_Witness ==
    \E r, q \in Requests :
        /\ pc[r] = "done" /\ resp[r] = AdvertiseResponse(Output(1))
        /\ pc[q] = "done" /\ resp[q] = NegotiateResponse(Output(1))

\* The errors of the taxonomy's FilesystemError that init_repo returns.
FilesystemErrors == {"io error", "rename: Other", "rename: DirectoryNotEmpty"}

\* C15: a request that leaves init_repo without the repository path has
\* failed with a FilesystemError; the step changes no canonical directory
\* (each is as absent or as complete as before) and nothing of any other
\* request.
C15_InitRepoFailureAbortsOnlyCaller ==
    [][\A r \in Requests :
          (pc[r] \in InInitRepo /\ pc'[r] = "done")
          => /\ result'[r].tag = "Err"
             /\ result'[r].err \in FilesystemErrors
             /\ resp'[r] = InternalError
             /\ \A n \in Keys :
                   /\ fs'[RepoPath(n)] = fs[RepoPath(n)]
                   /\ fs'[RepoPath(n)].exists => IsComplete(fs'[RepoPath(n)], n)
             /\ \A q \in Requests \ {r} :
                   /\ pc'[q] = pc[q] /\ result'[q] = result[q]
                   /\ resp'[q] = resp[q] /\ repo'[q] = repo[q]
                   /\ tmp'[q] = tmp[q]
                   /\ tmp[q] # "" => fs'[tmp[q]] = fs[tmp[q]]]_vars

\* C15 witness: a request failed in init_repo while the repository of its
\* key was at the canonical path and the other request was staging.
C15_Witness ==
    \E r, q \in Requests :
        /\ pc[r] = "done" /\ result[r].err = "io error"
        /\ fs[path(r)].exists
        /\ pc[q] \in Staging

\* C16: a pack-negotiation request that has ended has a response: the
\* pack result or the error response.
C16_NegotiationAlwaysResponds ==
    \A r \in Requests :
        (pc[r] = "done" /\ req[r].path = "/git-upload-pack")
        => resp[r] # NoResponse

\* C17: whenever init_repo has returned a path to tuple_n_git, the path is
\* the canonical path of the request's key and a complete repository is
\* there.
C17_ReturnedPathMaterialized ==
    \A r \in Requests :
        repo[r] # ""
        => /\ repo[r] = RepoPath(req[r].n)
           /\ IsComplete(fs[repo[r]], req[r].n)

\* C17 witness: init_repo has returned the path of a key to a request that
\* is now in its protocol phase, while another request for the same key
\* is in the arm of the tolerated lost race.
C17_Witness ==
    \E r, q \in Requests :
        /\ r # q
        /\ pc[r] = "remove_dir_all"
        /\ pc[q] \in AdvertisePhase \cup NegotiatePhase
        /\ repo[q] = path(r)
        /\ fs[repo[q]].exists

\* C18: no delegated process exists for a request whose subpath or service
\* name is not supported, and a request is rejected for either reason at
\* the match on its subpath, before any process was started for it.
C18_RejectedNeverDelegates ==
    [][\A r \in Requests :
          /\ child'[r].op # ""
             => /\ req'[r].path \in {"/info/refs", "/git-upload-pack"}
                /\ ~UnsupportedService(r)'
          /\ (result[r].tag = "Pending" /\ result'[r].tag = "Err"
               /\ result'[r].err \in ClientProtocolErrors)
             => /\ pc[r] = "match_path"
                /\ child[r] = NoChild /\ child'[r] = NoChild]_vars

\* C18 witness: one request was rejected for its subpath and one for its
\* service name.
C18_Witness ==
    \E r, q \in Requests :
        /\ pc[r] = "done" /\ result[r].err = "not supported: /HEAD"
        /\ pc[q] = "done" /\ req[q].path = "/info/refs"
        /\ req[q].query = {<<"service", "git-receive-pack">>}
        /\ result[q].err = "unsupported service; use a better git client"

=============================================================================
